---- MODULE Spec2Model ----
(***************************************************************************)
(* Model of gt4py.next.embedded.nd_array_field (NumPy backend): Fields     *)
(* (a Domain plus a dense array), Connectivity Fields, the elementwise     *)
(* builtin operators, restrict / __setitem__, remap / inverse_image,       *)
(* concat_where, broadcast and the reductions over a local dimension.      *)
(*                                                                         *)
(* Conventions of the model                                                *)
(*  - an n-d array is a record [shape, data]: shape is the tuple of axis   *)
(*    lengths, data maps every 0-based index tuple to the element;         *)
(*  - positions inside a Domain (Python's 0-based dim_idx) are 1-based     *)
(*    here and 0 stands for Python's None;                                 *)
(*  - a call that raises returns [ok |-> FALSE, err |-> <exception>], a    *)
(*    call that returns gives [ok |-> TRUE, val |-> <value>];              *)
(*  - an optional integer is [none |-> BOOLEAN, v |-> Int].                *)
(***************************************************************************)
EXTENDS Integers, Sequences, FiniteSets, TLC

VARIABLES op, args, ret, cache, obj

vars == <<op, args, ret, cache, obj>>

(***************************************************************************)
(* Bounds of the model.                                                    *)
(***************************************************************************)
\* the ends of the ranges of the enumerated Fields lie in -1 .. MaxStop
MaxStop == 3
\* the 1-d Connectivity Fields have at most MaxConnLen entries
MaxConnLen == 3

\* the largest range end of an operand Field of the operators
MaxOperandStop == 2

(***************************************************************************)
(* Generic helpers.                                                        *)
(***************************************************************************)
Max(a, b) == IF a >= b THEN a ELSE b
Min(a, b) == IF a <= b THEN a ELSE b

SetMax(S) == CHOOSE x \in S : \A y \in S : y <= x
SetMin(S) == CHOOSE x \in S : \A y \in S : x <= y

Ok(v) == [ok |-> TRUE, val |-> v]
Err(e) == [ok |-> FALSE, err |-> e]

NoneInt == [none |-> TRUE, v |-> 0]
SomeInt(x) == [none |-> FALSE, v |-> x]

(***************************************************************************)
(* common.Infinity / common.UnitRange / common.NamedRange / common.Domain.  *)
(* An unbounded end of a UnitRange is one of the two Infinity values, which *)
(* order below / above every integer and absorb addition.                   *)
(***************************************************************************)
Infinity_POSITIVE == 1000
Infinity_NEGATIVE == -1000

IsInfinity(x) == x = Infinity_POSITIVE \/ x = Infinity_NEGATIVE

\* UnitRange.__init__: (0, 0) is the single empty UnitRange
UnitRange(start, stop) ==
    IF start < stop THEN [start |-> start, stop |-> stop]
    ELSE [start |-> 0, stop |-> 0]

UnitRange_infinite == UnitRange(Infinity_NEGATIVE, Infinity_POSITIVE)

is_left_finite(r) == r.start # Infinity_NEGATIVE
is_right_finite(r) == r.stop # Infinity_POSITIVE
is_finite(r) == is_left_finite(r) /\ is_right_finite(r)

\* len(UnitRange): Infinity for an unbounded range
UnitRange_len(r) == IF is_finite(r) THEN r.stop - r.start ELSE Infinity_POSITIVE

UnitRange_is_empty(r) == r.start >= r.stop

\* UnitRange.__and__
UnitRange_and(a, b) == UnitRange(Max(a.start, b.start), Min(a.stop, b.stop))

\* UnitRange.__add__ (shift by an integer; Infinity absorbs)
UnitRange_add(r, off) ==
    UnitRange(IF IsInfinity(r.start) THEN r.start ELSE r.start + off,
              IF IsInfinity(r.stop) THEN r.stop ELSE r.stop + off)

\* UnitRange.__le__ (sub-range test)
UnitRange_le(a, b) == a.start >= b.start /\ a.stop <= b.stop

InRange(i, r) == r.start <= i /\ i < r.stop

NamedRange(dim, r) == [dim |-> dim, unit_range |-> r]

Domain_dims(domain) == [k \in 1..Len(domain) |-> domain[k].dim]
Domain_ranges(domain) == [k \in 1..Len(domain) |-> domain[k].unit_range]
Domain_shape(domain) == [k \in 1..Len(domain) |-> UnitRange_len(domain[k].unit_range)]
Domain_is_empty(domain) == \E k \in 1..Len(domain) : UnitRange_is_empty(domain[k].unit_range)
Domain_is_finite(domain) == \A k \in 1..Len(domain) : is_finite(domain[k].unit_range)

\* Domain.dim_index / embedded_common._find_index_of_dim: 0 when absent
dim_index(domain, dim) ==
    IF \E k \in 1..Len(domain) : domain[k].dim = dim
    THEN CHOOSE k \in 1..Len(domain) : domain[k].dim = dim
    ELSE 0

\* Domain.replace(index, *named_ranges)
Domain_replace(domain, idx, named_ranges) ==
    SubSeq(domain, 1, idx - 1) \o named_ranges \o SubSeq(domain, idx + 1, Len(domain))

\* Domain.__post_init__: the dimensions of a Domain are unique
Domain_dims_unique(domain) ==
    \A j, k \in 1..Len(domain) : domain[j].dim = domain[k].dim => j = k

\* Domain.__and__ for two domains over the same dimensions, and the fold
\* embedded_common.domain_intersection makes of it
Domain_and(d1, d2) ==
    [k \in 1..Len(d1) |-> NamedRange(d1[k].dim, UnitRange_and(d1[k].unit_range, d2[k].unit_range))]

domain_intersection(d1, d2) == Domain_and(d1, d2)

(***************************************************************************)
(* The array namespace (NumPy): shapes, basic slicing, broadcasting.       *)
(***************************************************************************)
Rank(a) == Len(a.shape)

\* all index tuples of an array of the given shape
IndexSet(shape) ==
    LET n == Len(shape)
        m == IF n = 0 THEN 0 ELSE SetMax({shape[k] : k \in 1..n})
    IN  {t \in [1..n -> 0..(m - 1)] : \A k \in 1..n : t[k] < shape[k]}

\* a 1-d array from a sequence of elements
Arr1(s) == [shape |-> <<Len(s)>>, data |-> [t \in IndexSet(<<Len(s)>>) |-> s[t[1] + 1]]]

\* the elements of a 1-d array as a sequence
Seq1(a) == [k \in 1..a.shape[1] |-> a.data[<<k - 1>>]]

\* Python slice(start, stop): either end may be None
Slice(start, stop) == [start |-> start, stop |-> stop]
SliceAll == Slice(NoneInt, NoneInt)

\* slice.indices(n) for step 1: None, negative and too large ends
SliceLo(s, n) ==
    IF s.start.none THEN 0
    ELSE IF s.start.v < 0 THEN Max(s.start.v + n, 0)
    ELSE Min(s.start.v, n)
SliceHi(s, n) ==
    IF s.stop.none THEN n
    ELSE IF s.stop.v < 0 THEN Max(s.stop.v + n, 0)
    ELSE Min(s.stop.v, n)

\* ndarray[slices]: one slice per axis
ArraySlice(a, slices) ==
    LET lo == [k \in 1..Rank(a) |-> SliceLo(slices[k], a.shape[k])]
        hi == [k \in 1..Rank(a) |-> SliceHi(slices[k], a.shape[k])]
        shp == [k \in 1..Rank(a) |-> Max(hi[k] - lo[k], 0)]
    IN  [shape |-> shp,
         data |-> [t \in IndexSet(shp) |-> a.data[[k \in 1..Rank(a) |-> t[k] + lo[k]]]]]

\* NumPy broadcasting of two shapes of the same rank
BroadcastCompatible(s1, s2) ==
    \A k \in 1..Len(s1) : s1[k] = s2[k] \/ s1[k] = 1 \/ s2[k] = 1
BroadcastShape(s1, s2) == [k \in 1..Len(s1) |-> IF s1[k] = 1 THEN s2[k] ELSE s1[k]]
BroadcastIndex(t, shape) == [k \in 1..Len(shape) |-> IF shape[k] = 1 THEN 0 ELSE t[k]]

\* xp.broadcast_to(array, shape)
broadcast_to(a, shape) ==
    [shape |-> shape, data |-> [t \in IndexSet(shape) |-> a.data[BroadcastIndex(t, a.shape)]]]

\* ndarray[tuple of slice(None) / None]: keep[k] = TRUE is slice(None), which takes
\* the next axis of the array, FALSE is None (np.newaxis), which inserts an axis of
\* length 1; axes the index does not mention follow unchanged
ArrayExpand(a, keep) ==
    LET nkeep(k) == Cardinality({j \in 1..k : keep[j]})
        used == nkeep(Len(keep))
        rest == Rank(a) - used
        shp == [k \in 1..(Len(keep) + rest) |->
                  IF k > Len(keep) THEN a.shape[used + (k - Len(keep))]
                  ELSE IF keep[k] THEN a.shape[nkeep(k)] ELSE 1]
        pos(j) == IF j > used THEN Len(keep) + (j - used)
                  ELSE CHOOSE k \in 1..Len(keep) : keep[k] /\ nkeep(k) = j
    IN  IF used > Rank(a) THEN Err("IndexError")
        ELSE Ok([shape |-> shp,
                 data |-> [t \in IndexSet(shp) |-> a.data[[j \in 1..Rank(a) |-> t[pos(j)]]]]])

(***************************************************************************)
(* NdArrayField: construction.                                             *)
(***************************************************************************)
Field(domain, ndarray) == [domain |-> domain, ndarray |-> ndarray]

\* NdArrayField.from_array: the rank and shape assertions
from_array(data, domain) ==
    IF Len(domain) # Rank(data) THEN Err("AssertionError")
    ELSE IF ~(\A k \in 1..Len(domain) :
                data.shape[k] = 1 \/ UnitRange_len(domain[k].unit_range) = data.shape[k])
    THEN Err("AssertionError")
    ELSE Ok(Field(domain, data))

\* _broadcast(field, new_dimensions)
_broadcast(field, new_dimensions) ==
    IF Domain_dims(field.domain) = new_dimensions THEN Ok(field)
    ELSE LET keep == [k \in 1..Len(new_dimensions) |->
                        dim_index(field.domain, new_dimensions[k]) # 0]
             named_ranges == [k \in 1..Len(new_dimensions) |->
                        IF keep[k]
                        THEN NamedRange(new_dimensions[k],
                                 field.domain[dim_index(field.domain, new_dimensions[k])].unit_range)
                        ELSE NamedRange(new_dimensions[k], UnitRange_infinite)]
             expanded == ArrayExpand(field.ndarray, keep)
         IN  IF ~expanded.ok THEN expanded ELSE from_array(expanded.val, named_ranges)

\* _builtins_broadcast(field, new_dimensions) for a Field
_builtins_broadcast(field, new_dimensions) == _broadcast(field, new_dimensions)

\* _compute_slice for a UnitRange: an end is None where the domain is unbounded
_compute_slice(rng, domain, pos) ==
    Slice(IF is_left_finite(domain[pos].unit_range)
          THEN SomeInt(rng.start - domain[pos].unit_range.start) ELSE NoneInt,
          IF is_right_finite(domain[pos].unit_range)
          THEN SomeInt(rng.stop - domain[pos].unit_range.start) ELSE NoneInt)

\* _get_slices_from_domain_slice(domain, domain_slice) for named ranges
_get_slices_from_domain_slice(domain, domain_slice) ==
    [k \in 1..Len(domain) |->
        LET pos == dim_index(domain_slice, domain[k].dim)
        IN  IF pos # 0 THEN _compute_slice(domain_slice[pos].unit_range, domain, k)
            ELSE SliceAll]

(***************************************************************************)
(* Elementwise builtins (_make_builtin).                                   *)
(***************************************************************************)
\* NumPy's truth value of an element of an operand array, where the elements of
\* a boolean array are written 0 (False) and 1 (True): a number other than 0
Truthy(x) == x # 0

RECURSIVE Gcd(_, _)
Gcd(x, y) == IF y = 0 THEN x ELSE Gcd(y, x % y)

\* the quotient of two positive integers as a fraction in lowest terms
Fraction(x, y) == [num |-> x \div Gcd(x, y), den |-> y \div Gcd(x, y)]

\* the array namespace's scalar operation behind each builtin (the arithmetic ones
\* on integers, division and power on positive integers)
ScalarOp(name, x, y) ==
    CASE name = "add" -> x + y
      [] name = "subtract" -> x - y
      [] name = "multiply" -> x * y
      [] name = "divide" -> Fraction(x, y)
      [] name = "floor_divide" -> x \div y
      [] name = "mod" -> x % y
      [] name = "power" -> x ^ y
      [] name = "logical_and" -> Truthy(x) /\ Truthy(y)
      [] name = "logical_or" -> Truthy(x) \/ Truthy(y)
      [] name = "logical_xor" -> Truthy(x) # Truthy(y)

\* op(*transformed) on two arrays of the same rank, with NumPy broadcasting
ArrayOp(name, a, b) ==
    IF ~BroadcastCompatible(a.shape, b.shape) THEN Err("ValueError: broadcast")
    ELSE LET shp == BroadcastShape(a.shape, b.shape)
         IN  Ok([shape |-> shp,
                 data |-> [t \in IndexSet(shp) |->
                             ScalarOp(name, a.data[BroadcastIndex(t, a.shape)],
                                            b.data[BroadcastIndex(t, b.shape)])]])

\* a loop body that appends the array of the operand without slicing it
Transformed_unsliced(f, domain_int) == Ok(f.ndarray)

\* the loop body of _builtin_op for one Field operand
Transformed(f, domain_int) ==
    IF f.domain = domain_int THEN Ok(f.ndarray)
    ELSE LET f_broadcasted == _broadcast(f, Domain_dims(domain_int))
         IN  IF ~f_broadcasted.ok THEN f_broadcasted
             ELSE Ok(ArraySlice(f_broadcasted.val.ndarray,
                        _get_slices_from_domain_slice(f_broadcasted.val.domain, domain_int)))

\* _builtin_op(a, b) for two Field operands, reverse = False
_builtin_op(name, a, b) ==
    LET domain_int == domain_intersection(a.domain, b.domain)
        ta == Transformed(a, domain_int)
        tb == Transformed(b, domain_int)
    IN  IF ~ta.ok THEN ta
        ELSE IF ~tb.ok THEN tb
        ELSE LET new_data == ArrayOp(name, ta.val, tb.val)
             IN  IF ~new_data.ok THEN new_data
                 ELSE from_array(new_data.val, domain_int)

\* op(array, scalar), or op(scalar, array) when reverse is set
ArrayScalarOp(name, a, x, reverse) ==
    [shape |-> a.shape,
     data |-> [t \in IndexSet(a.shape) |->
                 IF reverse THEN ScalarOp(name, x, a.data[t]) ELSE ScalarOp(name, a.data[t], x)]]

\* _builtin_op(f, s) for a Field and a scalar: the domain is f's, the Field is not
\* sliced, and reverse swaps the two operands before the array operation
_builtin_op_scalar(name, f, x, reverse) ==
    from_array(ArrayScalarOp(name, f.ndarray, x, reverse), f.domain)

\* _builtin_op(f) for the unary builtin invert on a boolean array
_builtin_op_invert(f) ==
    from_array([shape |-> f.ndarray.shape,
                data |-> [t \in IndexSet(f.ndarray.shape) |-> ~Truthy(f.ndarray.data[t])]],
               f.domain)

\* the dtype of a Field whose array carries one
dtype(f) == f.ndarray.dtype

\* NdArrayField.__and__ / __or__ / __xor__ (and __rand__ / __ror__ / __rxor__,
\* which are the same functions): only the dtype of self is looked at
bool_op(name, self, other) ==
    IF dtype(self) = "bool"
    THEN IF other.is_field THEN _builtin_op(name, self, other.field)
         ELSE _builtin_op_scalar(name, self, other.scalar, FALSE)
    ELSE Err("NotImplementedError")

\* NdArrayField.__invert__
invert(self) ==
    IF dtype(self) = "bool" THEN _builtin_op_invert(self) ELSE Err("NotImplementedError")

\* the reverse flag of the reflected operator the class body defines for the
\* array operation name: set for __rsub__, __rtruediv__, __rfloordiv__, __rmod__,
\* not set for __radd__ and __rmul__
ReverseFlag(name) == name \in {"subtract", "divide", "floor_divide", "mod"}

\* the array operations that have a reflected operator in the class body; power
\* has __pow__ only
ReflectedOps == {"add", "subtract", "multiply", "divide", "floor_divide", "mod"}

\* f op s (reflected = FALSE) and s op f (reflected = TRUE) for a scalar s: Python
\* tries the scalar's operator first, which does not know Fields, then the
\* reflected operator of the Field, and raises TypeError when there is none
arith_op(name, f, x, reflected) ==
    IF ~reflected THEN _builtin_op_scalar(name, f, x, FALSE)
    ELSE IF name \in ReflectedOps THEN _builtin_op_scalar(name, f, x, ReverseFlag(name))
    ELSE Err("TypeError: unsupported operand")

(***************************************************************************)
(* NdArrayField.restrict with an absolute index (a Domain).                *)
(***************************************************************************)
\* embedded_common.sub_domain for an absolute index sequence of named ranges
sub_domain(domain, index) ==
    IF \E k \in 1..Len(domain) :
           /\ dim_index(index, domain[k].dim) # 0
           /\ ~UnitRange_le(index[dim_index(index, domain[k].dim)].unit_range,
                            domain[k].unit_range)
    THEN Err("IndexOutOfBounds")
    ELSE Ok([k \in 1..Len(domain) |->
                IF dim_index(index, domain[k].dim) # 0
                THEN NamedRange(domain[k].dim, index[dim_index(index, domain[k].dim)].unit_range)
                ELSE domain[k]])

\* NdArrayField._slice
_slice(f, index) ==
    LET new_domain == sub_domain(f.domain, index)
    IN  IF ~new_domain.ok THEN new_domain
        ELSE Ok([domain |-> new_domain.val,
                 slice |-> _get_slices_from_domain_slice(f.domain, index)])

\* NdArrayField.restrict
restrict(f, index) ==
    LET sl == _slice(f, index)
    IN  IF ~sl.ok THEN sl
        ELSE from_array(ArraySlice(f.ndarray, sl.val.slice), sl.val.domain)

\* self._ndarray[target_slice] = value for an array value: the value is broadcast
\* to the shape of the sliced region, or NumPy raises
ArrayAssign(a, slices, v) ==
    LET lo == [k \in 1..Rank(a) |-> SliceLo(slices[k], a.shape[k])]
        hi == [k \in 1..Rank(a) |-> SliceHi(slices[k], a.shape[k])]
        shp == [k \in 1..Rank(a) |-> Max(hi[k] - lo[k], 0)]
        inside(t) == \A k \in 1..Rank(a) : lo[k] <= t[k] /\ t[k] < hi[k]
    IN  IF Rank(v) # Rank(a) \/ \E k \in 1..Rank(a) : v.shape[k] # shp[k] /\ v.shape[k] # 1
        THEN Err("ValueError: broadcast")
        ELSE Ok([shape |-> a.shape,
                 data |-> [t \in IndexSet(a.shape) |->
                             IF inside(t)
                             THEN v.data[BroadcastIndex([k \in 1..Rank(a) |-> t[k] - lo[k]], v.shape)]
                             ELSE a.data[t]]])

\* self._ndarray[target_slice] = value for a scalar value
ArrayAssignScalar(a, slices, x) ==
    LET lo == [k \in 1..Rank(a) |-> SliceLo(slices[k], a.shape[k])]
        hi == [k \in 1..Rank(a) |-> SliceHi(slices[k], a.shape[k])]
        inside(t) == \A k \in 1..Rank(a) : lo[k] <= t[k] /\ t[k] < hi[k]
    IN  [shape |-> a.shape,
         data |-> [t \in IndexSet(a.shape) |-> IF inside(t) THEN x ELSE a.data[t]]]

\* a value of __setitem__: a Field or a scalar
FieldValue(f) == [is_field |-> TRUE, field |-> f]
ScalarValue(x) == [is_field |-> FALSE, scalar |-> x]

\* a __setitem__ that accepts a value Field over any domain
setitem_domain_any(value_domain, target_domain) == TRUE

\* __setitem__: the value Field's domain must equal the target domain
setitem_domain_ok(value_domain, target_domain) == value_domain = target_domain

\* NdArrayField.__setitem__(index, value): [ret, self], self being the Field after
\* the call (its array is assigned in place)
setitem(self, index, value) ==
    LET sl == _slice(self, index)
        assigned == ArrayAssign(self.ndarray, sl.val.slice, value.field.ndarray)
    IN  IF ~sl.ok THEN [ret |-> sl, self |-> self]
        ELSE IF value.is_field
        THEN IF ~setitem_domain_ok(value.field.domain, sl.val.domain)
             THEN [ret |-> Err("ValueError: incompatible domain"), self |-> self]
             ELSE IF ~assigned.ok THEN [ret |-> assigned, self |-> self]
             ELSE [ret |-> Ok("None"), self |-> Field(self.domain, assigned.val)]
        ELSE [ret |-> Ok("None"),
              self |-> Field(self.domain,
                             ArrayAssignScalar(self.ndarray, sl.val.slice, value.scalar))]

(***************************************************************************)
(* concat_where.                                                           *)
(***************************************************************************)
\* a loop that never closes a run: one run holds the whole mask
MaskRangesFrom_one_run(mask, i, cur, ind, res) ==
    Append(res, [v |-> cur, r |-> UnitRange(ind, mask.shape[1])])

\* the loop of _compute_mask_ranges from position i on
RECURSIVE MaskRangesFrom(_, _, _, _, _)
MaskRangesFrom(mask, i, cur, ind, res) ==
    IF i >= mask.shape[1]
    THEN Append(res, [v |-> cur, r |-> UnitRange(ind, mask.shape[1])])
    ELSE IF mask.data[<<i>>] # cur
    THEN MaskRangesFrom(mask, i + 1, mask.data[<<i>>], i,
                        Append(res, [v |-> cur, r |-> UnitRange(ind, i)]))
    ELSE MaskRangesFrom(mask, i + 1, cur, ind, res)

\* _compute_mask_ranges(mask): mask[0] raises on a zero-length mask
_compute_mask_ranges(mask) ==
    IF Rank(mask) # 1 THEN Err("AssertionError")
    ELSE IF mask.shape[1] = 0 THEN Err("IndexError")
    ELSE Ok(MaskRangesFrom(mask, 1, mask.data[<<0>>], 0, <<>>))

\* _relative_ranges_to_domain(relative_ranges, domain): zip stops at the shorter
_relative_ranges_to_domain(relative_ranges, domain) ==
    [k \in 1..Min(Len(relative_ranges), Len(domain)) |->
        NamedRange(domain[k].dim,
                   UnitRange_add(relative_ranges[k], domain[k].unit_range.start))]

\* _trim_empty_domains(lst): entries are [v, d]
RECURSIVE _trim_empty_domains(_)
_trim_empty_domains(lst) ==
    IF lst = <<>> THEN lst
    ELSE IF Domain_is_empty(lst[1].d) THEN _trim_empty_domains(Tail(lst))
    ELSE IF Domain_is_empty(lst[Len(lst)].d) THEN _trim_empty_domains(SubSeq(lst, 1, Len(lst) - 1))
    ELSE lst

\* embedded_common.restrict_to_intersection(d1, d2, ignore_dims=dim), first result:
\* d1 with every dimension but dim cut to the intersection with d2
restrict_to_intersection(d1, d2, dim) ==
    [k \in 1..Len(d1) |->
        IF d1[k].dim = dim THEN d1[k]
        ELSE NamedRange(d1[k].dim, UnitRange_and(d1[k].unit_range, d2[k].unit_range))]

\* _intersect_fields(f, g, ignore_dims=dim) for two Fields over the same
\* dimensions (promote_dims and _broadcast change nothing then): the first result
_intersect_fields(f, g, dim) ==
    LET intersected_domain == restrict_to_intersection(f.domain, g.domain, dim)
    IN  from_array(ArraySlice(f.ndarray,
                       _get_slices_from_domain_slice(f.domain, intersected_domain)),
                   intersected_domain)

\* the loop of _stack_domains: the stop reached, or none when a start does not
\* meet the stop before it
RECURSIVE StackFrom(_, _, _, _)
StackFrom(domains, k, pos, dim_stop) ==
    IF k > Len(domains) THEN SomeInt(dim_stop)
    ELSE IF domains[k][pos].unit_range.start # dim_stop THEN NoneInt
    ELSE StackFrom(domains, k + 1, pos, domains[k][pos].unit_range.stop)

\* _stack_domains(*domains, dim): [none |-> TRUE] is Python's None
_stack_domains(domains, dim) ==
    IF domains = <<>> THEN [none |-> FALSE, domain |-> <<>>]
    ELSE LET pos == dim_index(domains[1], dim)
             dim_start == domains[1][pos].unit_range.start
             dim_stop == StackFrom(domains, 1, pos, dim_start)
         IN  IF dim_stop.none THEN [none |-> TRUE, domain |-> <<>>]
             ELSE [none |-> FALSE,
                   domain |-> Domain_replace(domains[1], pos,
                                  <<NamedRange(dim, UnitRange(dim_start, dim_stop.v))>>)]

\* embedded_common.domain_intersection(*domains) of domains over the same dimensions
RECURSIVE domain_intersection_all(_)
domain_intersection_all(domains) ==
    IF Len(domains) = 1 THEN domains[1]
    ELSE Domain_and(domains[1], domain_intersection_all(Tail(domains)))

\* xp.concatenate(arrays, axis): the arrays agree on every other axis
RECURSIVE concatenate(_, _)
concatenate(arrays, axis) ==
    IF Len(arrays) = 1 THEN arrays[1]
    ELSE LET a == arrays[1]
             b == concatenate(Tail(arrays), axis)
             shp == [a.shape EXCEPT ![axis] = a.shape[axis] + b.shape[axis]]
         IN  [shape |-> shp,
              data |-> [t \in IndexSet(shp) |->
                          IF t[axis] < a.shape[axis] THEN a.data[t]
                          ELSE b.data[[t EXCEPT ![axis] = t[axis] - a.shape[axis]]]]]

\* _concat(*fields, dim)
_concat(fields, dim) ==
    LET domains == [k \in 1..Len(fields) |-> fields[k].domain]
        new_domain == _stack_domains(domains, dim)
    IN  IF Len(fields) > 1 /\ ~Domain_is_empty(domain_intersection_all(domains))
        THEN Err("ValueError: overlap")
        ELSE IF new_domain.none THEN Err("NonContiguousDomain")
        ELSE from_array(
                 concatenate([k \in 1..Len(fields) |->
                                 broadcast_to(fields[k].ndarray, Domain_shape(fields[k].domain))],
                             dim_index(new_domain.domain, dim)),
                 new_domain.domain)

\* the first k for which the call r(k) raised, 0 when none did
FirstFailed(results) ==
    IF \E k \in 1..Len(results) : ~results[k].ok
    THEN SetMin({k \in 1..Len(results) : ~results[k].ok})
    ELSE 0

\* _concat_where(mask_field, true_field, false_field)
_concat_where(mask_field, true_field, false_field) ==
    IF Len(mask_field.domain) # 1 THEN Err("NotImplementedError")
    ELSE
    LET mask_dim == mask_field.domain[1].dim
        t_broadcasted == _intersect_fields(true_field, false_field, mask_dim)
        f_broadcasted == _intersect_fields(false_field, true_field, mask_dim)
        rel == _compute_mask_ranges(mask_field.ndarray)
    IN  IF ~t_broadcasted.ok THEN t_broadcasted
        ELSE IF ~f_broadcasted.ok THEN f_broadcasted
        ELSE IF ~rel.ok THEN rel
        ELSE
        LET sel(v) == IF v THEN t_broadcasted.val ELSE f_broadcasted.val
            intersected == [k \in 1..Len(rel.val) |->
                [v |-> rel.val[k].v,
                 d |-> domain_intersection(
                           sel(rel.val[k].v).domain,
                           _relative_ranges_to_domain(<<rel.val[k].r>>, mask_field.domain))]]
            trimmed == _trim_empty_domains(intersected)
        IN  IF \E k \in 1..Len(trimmed) : Domain_is_empty(trimmed[k].d)
            THEN Err("NonContiguousDomain")
            ELSE
            LET transformed == [k \in 1..Len(trimmed) |-> restrict(sel(trimmed[k].v), trimmed[k].d)]
            IN  IF FirstFailed(transformed) # 0 THEN transformed[FirstFailed(transformed)]
                ELSE IF transformed # <<>>
                THEN _concat([k \in 1..Len(transformed) |-> transformed[k].val], mask_dim)
                ELSE from_array([shape |-> <<0>>, data |-> <<>>],
                                <<NamedRange(mask_dim, UnitRange(0, 0))>>)

(***************************************************************************)
(* Connectivity Fields: inverse_image, restrict, and NdArrayField.remap.   *)
(*                                                                         *)
(* The memo cache of a Connectivity Field is a set of entries              *)
(* [fn, key, value]; the part (id(ndarray), domain) of the cache key is    *)
(* the same for every entry of one Connectivity Field and is left out.     *)
(***************************************************************************)
NdArrayConnectivityField(domain, ndarray, codomain, skip_value) ==
    [type |-> "ndarray", domain |-> domain, ndarray |-> ndarray,
     codomain |-> codomain, skip_value |-> skip_value]

\* common.CartesianConnectivity for a translation by offset along dimension
CartesianConnectivity(dimension, offset) ==
    [type |-> "cartesian", codomain |-> dimension, offset |-> offset,
     skip_value |-> NoneInt]

\* NdArrayConnectivityField.kind, CartesianConnectivity.kind
kind(connectivity) ==
    IF connectivity.type = "cartesian" THEN {}
    ELSE {"MODIFY_STRUCTURE"}
         \cup (IF Len(connectivity.domain) > 1 THEN {"MODIFY_RANK", "MODIFY_DIMS"} ELSE {})
         \cup (IF dim_index(connectivity.domain, connectivity.codomain) = 0
               THEN {"MODIFY_DIMS"} ELSE {})

\* NdArrayConnectivityField.from_array: the rank and shape assertions
connectivity_from_array(data, codomain, domain, skip_value) ==
    IF Len(domain) # Rank(data) THEN Err("AssertionError")
    ELSE IF ~(\A k \in 1..Len(domain) :
                UnitRange_len(domain[k].unit_range) = data.shape[k] \/ data.shape[k] = 1)
    THEN Err("AssertionError")
    ELSE Ok(NdArrayConnectivityField(domain, data, codomain, skip_value))

\* the positions select_mask marks: the entries inside image_range
SelectMask(index_array, image_range) ==
    {t \in IndexSet(index_array.shape) : InRange(index_array.data[t], image_range)}

\* a _hypercube whose box ends at the last selected position instead of after it
_hypercube_short(index_array, image_range, skip_value) ==
    LET nnz == SelectMask(index_array, image_range)
        n == Rank(index_array)
        lo == [k \in 1..n |-> SetMin({t[k] : t \in nnz})]
        hi == [k \in 1..n |-> SetMax({t[k] : t \in nnz})]
        inbox == {t \in IndexSet(index_array.shape) : \A k \in 1..n : lo[k] <= t[k] /\ t[k] < hi[k]}
        hcube(t) == t \in nnz \/ (~skip_value.none /\ index_array.data[t] = skip_value.v)
    IN  IF n > 0 /\ nnz = {} THEN Err("ValueError: zero-size array")
        ELSE IF ~(\A t \in inbox : hcube(t)) THEN Ok([none |-> TRUE, ranges |-> <<>>])
        ELSE Ok([none |-> FALSE, ranges |-> [k \in 1..n |-> UnitRange(lo[k], hi[k])]])

\* a _hypercube that answers an empty selection with empty ranges
_hypercube_empty(index_array, image_range, skip_value) ==
    Ok([none |-> FALSE, ranges |-> [k \in 1..Rank(index_array) |-> UnitRange(0, 0)]])

\* _hypercube(index_array, image_range, xp, skip_value): [none |-> TRUE] is None;
\* xp.min of an empty selection raises
_hypercube(index_array, image_range, skip_value) ==
    LET nnz == SelectMask(index_array, image_range)
        n == Rank(index_array)
        lo == [k \in 1..n |-> SetMin({t[k] : t \in nnz})]
        hi == [k \in 1..n |-> SetMax({t[k] : t \in nnz}) + 1]
        inbox == {t \in IndexSet(index_array.shape) : \A k \in 1..n : lo[k] <= t[k] /\ t[k] < hi[k]}
        hcube(t) == t \in nnz \/ (~skip_value.none /\ index_array.data[t] = skip_value.v)
    IN  IF n > 0 /\ nnz = {} THEN Err("ValueError: zero-size array")
        ELSE IF ~(\A t \in inbox : hcube(t)) THEN Ok([none |-> TRUE, ranges |-> <<>>])
        ELSE Ok([none |-> FALSE, ranges |-> [k \in 1..n |-> UnitRange(lo[k], hi[k])]])

\* the cache is a set of entries <<function, key, value>>; the cached value for
\* a key, if any
CacheGet(cch, fn, key) ==
    IF \E e \in cch : e[1] = fn /\ e[2] = key
    THEN [none |-> FALSE, value |-> (CHOOSE e \in cch : e[1] = fn /\ e[2] = key)[3]]
    ELSE [none |-> TRUE, value |-> <<>>]

CachePut(cch, fn, key, value) ==
    {e \in cch : ~(e[1] = fn /\ e[2] = key)} \cup {<<fn, key, value>>}

\* an image_range argument: a UnitRange (dim = "") or a NamedRange
ImageRange(dim, r) == [dim |-> dim, unit_range |-> r]

\* NdArrayConnectivityField.inverse_image(image_range) on the cache cch:
\* [ret, cache]
NdArray_inverse_image(connectivity, cch, image_range) ==
    LET hit == CacheGet(cch, "inverse_image", image_range)
        relative_ranges ==
            _hypercube(connectivity.ndarray, image_range.unit_range, connectivity.skip_value)
        new_dims == _relative_ranges_to_domain(relative_ranges.val.ranges, connectivity.domain)
    IN  IF ~hit.none THEN [ret |-> Ok(hit.value), cache |-> cch]
        ELSE IF image_range.dim # "" /\ image_range.dim # connectivity.codomain
        THEN [ret |-> Err("ValueError: codomain mismatch"), cache |-> cch]
        ELSE IF ~is_finite(image_range.unit_range)
        THEN [ret |-> Err("AssertionError"), cache |-> cch]
        ELSE IF ~relative_ranges.ok THEN [ret |-> relative_ranges, cache |-> cch]
        ELSE IF relative_ranges.val.none
        THEN [ret |-> Err("ValueError: non-contiguous"), cache |-> cch]
        ELSE [ret |-> Ok(new_dims),
              cache |-> CachePut(cch, "inverse_image", image_range, new_dims)]

\* CartesianConnectivity.inverse_image(image_range): the range moved back by offset
Cartesian_inverse_image(connectivity, cch, image_range) ==
    IF image_range.dim # "" /\ image_range.dim # connectivity.codomain
    THEN [ret |-> Err("ValueError: codomain mismatch"), cache |-> cch]
    ELSE [ret |-> Ok(<<NamedRange(connectivity.codomain,
                                  UnitRange_add(image_range.unit_range, 0 - connectivity.offset))>>),
          cache |-> cch]

inverse_image(connectivity, cch, image_range) ==
    IF connectivity.type = "cartesian"
    THEN Cartesian_inverse_image(connectivity, cch, image_range)
    ELSE NdArray_inverse_image(connectivity, cch, image_range)

\* NdArrayConnectivityField.restrict(index) on the cache cch: [ret, cache]
connectivity_restrict(connectivity, cch, index) ==
    LET hit == CacheGet(cch, "restrict", index)
        sl == _slice(connectivity, index)
        restricted == NdArrayConnectivityField(
                          sl.val.domain, ArraySlice(connectivity.ndarray, sl.val.slice),
                          connectivity.codomain, connectivity.skip_value)
    IN  IF ~hit.none THEN [ret |-> Ok(hit.value), cache |-> cch]
        ELSE IF ~sl.ok THEN [ret |-> sl, cache |-> cch]
        ELSE [ret |-> Ok(restricted), cache |-> CachePut(cch, "restrict", index, restricted)]

\* array - scalar
ArraySubScalar(a, x) == [shape |-> a.shape, data |-> [t \in IndexSet(a.shape) |-> a.data[t] - x]]

\* xp.take(a, indices, axis): a negative index counts from the end, an index
\* outside [-n, n) raises
take(a, indices, axis) ==
    LET n == a.shape[axis]
        r == Rank(indices)
        shp == SubSeq(a.shape, 1, axis - 1) \o indices.shape \o SubSeq(a.shape, axis + 1, Rank(a))
        norm(i) == IF i < 0 THEN i + n ELSE i
        src(t) == SubSeq(t, 1, axis - 1)
                  \o <<norm(indices.data[SubSeq(t, axis, axis + r - 1)])>>
                  \o SubSeq(t, axis + r, Len(t))
    IN  IF \E t \in IndexSet(indices.shape) : indices.data[t] < 0 - n \/ indices.data[t] >= n
        THEN Err("IndexError")
        ELSE Ok([shape |-> shp, data |-> [t \in IndexSet(shp) |-> a.data[src(t)]]])

\* the general case of remap: restrict the connectivity, rebase its entries, gather
Contramap(f, connectivity, cch, dim_idx, current_range, new_ranges) ==
    LET restricted_connectivity ==
            IF new_ranges # connectivity.domain
            THEN connectivity_restrict(connectivity, cch, new_ranges)
            ELSE [ret |-> Ok(connectivity), cache |-> cch]
        new_idx_array ==
            ArraySubScalar(restricted_connectivity.ret.val.ndarray, current_range.start)
    IN  IF ~restricted_connectivity.ret.ok THEN restricted_connectivity
        ELSE [ret |-> take(f.ndarray, new_idx_array, dim_idx),
              cache |-> restricted_connectivity.cache]

\* a remap that takes the first dimension of the Field whatever the codomain is
remap_dim_idx_first(f, connectivity) == 1

\* remap: the position of the connectivity's codomain in the Field's domain (0: absent)
remap_dim_idx(f, connectivity) == dim_index(f.domain, connectivity.codomain)

\* a remap that leaves the domain of the Field as it was
remap_new_domain_kept(f, dim_idx, new_ranges) == f.domain

\* remap: the new domain, the codomain's range replaced by the inverse image
remap_new_domain(f, dim_idx, new_ranges) == Domain_replace(f.domain, dim_idx, new_ranges)

\* NdArrayField.remap(connectivity), the connectivity's cache being cch: [ret, cache]
remap(f, connectivity, cch) ==
    LET dim_idx == remap_dim_idx(f, connectivity)
        current_range == f.domain[dim_idx].unit_range
        new_ranges == inverse_image(connectivity, cch, ImageRange("", current_range))
        new_domain == remap_new_domain(f, dim_idx, new_ranges.ret.val)
        new_buffer ==
            IF "MODIFY_STRUCTURE" \notin kind(connectivity)
            THEN [ret |-> Ok(f.ndarray), cache |-> new_ranges.cache]
            ELSE Contramap(f, connectivity, new_ranges.cache, dim_idx, current_range,
                           new_ranges.ret.val)
    IN  IF ~(connectivity.skip_value.none \/ connectivity.skip_value.v = -1)
        THEN [ret |-> Err("AssertionError"), cache |-> cch]
        ELSE IF dim_idx = 0
        THEN [ret |-> Err("ValueError: incompatible index field"), cache |-> cch]
        ELSE IF ~new_ranges.ret.ok THEN new_ranges
        ELSE IF ~Domain_dims_unique(new_domain)
        THEN [ret |-> Err("NotImplementedError: dimensions not unique"), cache |-> new_ranges.cache]
        ELSE IF ~new_buffer.ret.ok THEN new_buffer
        ELSE [ret |-> from_array(new_buffer.ret.val, new_domain), cache |-> new_buffer.cache]

(***************************************************************************)
(* Reductions over a local dimension (_make_reduction).                    *)
(***************************************************************************)
\* Dimension.kind: K is the local dimension of the model
DimensionKind(dim) == IF dim = "K" THEN "LOCAL" ELSE "HORIZONTAL"

_DEFAULT_SKIP_VALUE == 0 - 1

\* xp.min(array) and xp.max(array) of an array with at least one element
ArrayMin(a) == SetMin({a.data[t] : t \in IndexSet(a.shape)})
ArrayMax(a) == SetMax({a.data[t] : t \in IndexSet(a.shape)})

\* initial_value_op(field) of the three registered reductions
initial_value_op(name, field) ==
    CASE name = "neighbor_sum" -> 0
      [] name = "max_over" -> ArrayMin(field.ndarray)
      [] name = "min_over" -> ArrayMax(field.ndarray)

\* xp.where(table != _DEFAULT_SKIP_VALUE, array, fill) for arrays of one rank
masked_array(table, a, fill) ==
    IF Rank(table) # Rank(a) \/ ~BroadcastCompatible(table.shape, a.shape)
    THEN Err("ValueError: broadcast")
    ELSE LET shp == BroadcastShape(table.shape, a.shape)
         IN  Ok([shape |-> shp,
                 data |-> [t \in IndexSet(shp) |->
                    IF table.data[BroadcastIndex(t, table.shape)] # _DEFAULT_SKIP_VALUE
                    THEN a.data[BroadcastIndex(t, a.shape)]
                    ELSE fill]])

\* sum, max or min of a non-empty set of index tuples of the array a
RECURSIVE ReduceOver(_, _, _)
ReduceOver(name, a, S) ==
    LET t == CHOOSE x \in S : TRUE
        rest == S \ {t}
    IN  IF rest = {} THEN a.data[t]
        ELSE CASE name = "neighbor_sum" -> a.data[t] + ReduceOver(name, a, rest)
               [] name = "max_over" -> Max(a.data[t], ReduceOver(name, a, rest))
               [] name = "min_over" -> Min(a.data[t], ReduceOver(name, a, rest))

\* xp.sum / xp.max / xp.min (array, axis) along a non-empty axis (1-based here)
ArrayReduce(name, a, axis) ==
    LET drop(q) == SubSeq(q, 1, axis - 1) \o SubSeq(q, axis + 1, Len(q))
        shp == drop(a.shape)
    IN  [shape |-> shp,
         data |-> [t \in IndexSet(shp) |->
                     ReduceOver(name, a, {u \in IndexSet(a.shape) : drop(u) = t})]]

\* the _builtin_op of _make_reduction; offset_definition is the neighbour table
\* the offset provider of the ambient context holds under the name of the axis
reduction(name, field, axis, offset_definition) ==
    LET dims == Domain_dims(field.domain)
        reduce_dim_index == dim_index(field.domain, axis)
        new_domain == SelectSeq(field.domain, LAMBDA nr : nr.dim # axis)
        broadcast_slice == [k \in 1..Len(dims) |->
                              dims[k] \in {axis, offset_definition.origin_axis}]
        table == ArrayExpand(offset_definition.table, broadcast_slice)
        masked == masked_array(table.val, field.ndarray, initial_value_op(name, field))
    IN  IF DimensionKind(axis) # "LOCAL" THEN Err("ValueError: not a local dimension")
        ELSE IF reduce_dim_index = 0 THEN Err("ValueError: dimension not in the field")
        ELSE IF Cardinality({k \in 1..Len(dims) : DimensionKind(dims[k]) = "LOCAL"}) > 1
        THEN Err("NotImplementedError")
        ELSE IF ~table.ok THEN table
        ELSE IF ~masked.ok THEN masked
        ELSE from_array(ArrayReduce(name, masked.val, reduce_dim_index), new_domain)

(***************************************************************************)
(* The Fields the model enumerates.                                        *)
(***************************************************************************)
Values == {1, 2}

\* the finite ranges with ends in -1 .. MaxStop (the empty one included)
FiniteRanges == {UnitRange(a, b) : a, b \in (0 - 1)..MaxStop}

\* all 1-d arrays of length n over a set of values
Arrays1(n, vals) == {Arr1(s) : s \in [1..n -> vals]}

\* the arrays from_array accepts over a 1-d domain with range r: one element per
\* index, or a single element (the broadcastable placeholder)
ArraysOver(r, vals) ==
    (IF is_finite(r) THEN Arrays1(UnitRange_len(r), vals) ELSE {}) \cup Arrays1(1, vals)

\* 1-d Fields over dimension dim
Fields1(dim, ranges, vals) ==
    UNION {{Field(<<NamedRange(dim, r)>>, a) : a \in ArraysOver(r, vals)} : r \in ranges}

(***************************************************************************)
(* The state machine: a caller invokes one operation of the module on       *)
(* Fields it has constructed (op, args), the call returns or raises (ret),  *)
(* and the caller goes on to the next call.                                 *)
(***************************************************************************)
NoArgs == [none |-> TRUE]

Init ==
    /\ op = "idle"
    /\ args = NoArgs
    /\ ret = NoArgs
    /\ cache = {}
    /\ obj = NoArgs

BinaryOps == {"add", "subtract"}

ValueFields == Fields1("I", FiniteRanges \cup {UnitRange_infinite}, Values)

\* a op b on two Fields over dimension I
BuiltinOp ==
    /\ op = "idle"
    /\ \E name \in BinaryOps, a \in ValueFields, b \in ValueFields :
          /\ op' = "builtin_op"
          /\ args' = [name |-> name, a |-> a, b |-> b]
          /\ ret' = _builtin_op(name, a, b)
    /\ UNCHANGED <<cache, obj>>

\* the Field over range r (or its placeholder) whose element at absolute index i is
\* base + i: every element tells where it came from
IndexedFields(dim, ranges, base) ==
    {Field(<<NamedRange(dim, r)>>, Arr1([k \in 1..UnitRange_len(r) |-> base + r.start + k - 1]))
        : r \in {q \in ranges : is_finite(q)}}
    \cup {Field(<<NamedRange(dim, r)>>, Arr1(<<base>>)) : r \in ranges}

\* the masks: boolean Fields over the finite ranges with ends in 0 .. MaxStop
MaskFields == Fields1("I", {UnitRange(a, b) : a, b \in 0..MaxStop}, BOOLEAN)
TrueFields == IndexedFields("I", FiniteRanges \cup {UnitRange_infinite}, 10)
FalseFields == IndexedFields("I", FiniteRanges \cup {UnitRange_infinite}, 20)

\* concat_where(mask, t, f) on three Fields over dimension I
ConcatWhere ==
    /\ op = "idle"
    /\ \E m \in MaskFields, t \in TrueFields, f \in FalseFields :
          /\ op' = "concat_where"
          /\ args' = [mask |-> m, t |-> t, f |-> f]
          /\ ret' = _concat_where(m, t, f)
    /\ UNCHANGED <<cache, obj>>

\* the entries of the enumerated Connectivity Fields: the skip value -1 and
\* indices of the codomain
ConnValues == (0 - 1)..2
SkipValues == {NoneInt, SomeInt(0 - 1)}

\* 1-d arrays of every length up to n
ArraysUpTo(n, vals) == UNION {Arrays1(k, vals) : k \in 0..n}

\* 1-d Connectivity Fields over V (starting at 0 or 1) into codomain: one entry
\* per index, or the single-entry placeholder
Connectivities1(codomain) ==
    {NdArrayConnectivityField(f.domain, f.ndarray, codomain, sv) :
        f \in Fields1("V", {UnitRange(a, a + n) : a \in 0..1, n \in 0..MaxConnLen}, ConnValues),
        sv \in SkipValues}

\* all 2 x 2 arrays over a set of values
Arrays22(vals) ==
    {[shape |-> <<2, 2>>, data |-> [t \in IndexSet(<<2, 2>>) |-> s[2 * t[1] + t[2] + 1]]]
        : s \in [1..4 -> vals]}

\* 2-d Connectivity Fields over V x K (a neighbour table) into codomain
Connectivities2(codomain) ==
    {NdArrayConnectivityField(<<NamedRange("V", UnitRange(1, 3)), NamedRange("K", UnitRange(0, 2))>>,
                              a, codomain, sv) :
        a \in Arrays22((0 - 1)..1), sv \in SkipValues}

CartesianConnectivities == {CartesianConnectivity("I", o) : o \in (0 - 1)..1}

\* connectivities whose codomain J is no dimension of the remapped Fields
ForeignConnectivities ==
    {CartesianConnectivity("J", 1)}
    \cup {c \in Connectivities1("J") : c.ndarray.shape[1] = 2 /\ c.domain[1].unit_range.start = 0}

SourceFields == IndexedFields("I", FiniteRanges \cup {UnitRange_infinite}, 10)

\* connectivity.inverse_image(image_range) on a Connectivity Field just built
InverseImage ==
    /\ op = "idle"
    /\ \E c \in Connectivities1("I") \cup Connectivities2("I"),
          r \in FiniteRanges, d \in {"", "I", "J"} :
          LET res == inverse_image(c, {}, ImageRange(d, r))
          IN  /\ op' = "inverse_image"
              /\ args' = [connectivity |-> c, image_range |-> ImageRange(d, r)]
              /\ ret' = res.ret
              /\ cache' = res.cache
              /\ UNCHANGED obj

\* f.remap(connectivity), the connectivity just built
Remap ==
    /\ op = "idle"
    /\ \E f \in SourceFields,
          c \in Connectivities1("I") \cup Connectivities2("I")
                \cup CartesianConnectivities \cup ForeignConnectivities :
          LET res == remap(f, c, {})
          IN  /\ op' = "remap"
              /\ args' = [f |-> f, connectivity |-> c]
              /\ ret' = res.ret
              /\ cache' = res.cache
              /\ UNCHANGED obj

\* c is a permutation of [0, n) given as a Connectivity Field over [0, n)
IsPermutation(c) ==
    /\ c.type = "ndarray"
    /\ Len(c.domain) = 1
    /\ c.domain[1].unit_range = UnitRange(0, c.ndarray.shape[1])
    /\ {c.ndarray.data[t] : t \in IndexSet(c.ndarray.shape)} = 0..(c.ndarray.shape[1] - 1)

\* the inverse permutation, from the codomain of c back to its domain
InversePermutation(c) ==
    NdArrayConnectivityField(
        <<NamedRange(c.codomain, c.domain[1].unit_range)>>,
        [shape |-> c.ndarray.shape,
         data |-> [t \in IndexSet(c.ndarray.shape) |->
                     (CHOOSE u \in IndexSet(c.ndarray.shape) : c.ndarray.data[u] = t[1])[1]]],
        c.domain[1].dim, c.skip_value)

\* the Field a remap by a permutation returned is remapped by the inverse
RemapBack ==
    /\ op = "remap"
    /\ ret.ok
    /\ IsPermutation(args.connectivity)
    /\ LET cinv == InversePermutation(args.connectivity)
           res == remap(ret.val, cinv, {})
       IN  /\ op' = "remap_back"
           /\ args' = [f |-> ret.val, connectivity |-> cinv, origin |-> args.f]
           /\ ret' = res.ret
           /\ cache' = res.cache
           /\ UNCHANGED obj

\* sub-domains of dimension I used as absolute indices
AbsoluteIndices == {<<NamedRange("I", r)>> : r \in FiniteRanges}

\* f.restrict(index) with an absolute index
Restrict ==
    /\ op = "idle"
    /\ \E f \in SourceFields, index \in AbsoluteIndices :
          /\ op' = "restrict"
          /\ args' = [f |-> f, index |-> index]
          /\ ret' = restrict(f, index)
    /\ UNCHANGED <<cache, obj>>

\* the values assigned: Fields over the finite ranges, and a scalar
AssignedValues ==
    {FieldValue(v) : v \in IndexedFields("I", FiniteRanges, 20)} \cup {ScalarValue(7)}

\* f[index] = value: obj is f after the call
SetItem ==
    /\ op = "idle"
    /\ \E f \in SourceFields, index \in AbsoluteIndices, value \in AssignedValues :
          LET res == setitem(f, index, value)
          IN  /\ op' = "setitem"
              /\ args' = [f |-> f, index |-> index, value |-> value]
              /\ ret' = res.ret
              /\ obj' = res.self
    /\ UNCHANGED cache

\* the operand Fields of the operators: boolean and integer Fields over the ranges
\* with ends in 0 .. MaxOperandStop
TypedFields(d, vals) ==
    {Field(f.domain, [shape |-> f.ndarray.shape, data |-> f.ndarray.data, dtype |-> d])
        : f \in Fields1("I", {UnitRange(a, b) : a, b \in 0..MaxOperandStop}, vals)}

\* the elements of the boolean Fields are written 0 (False) and 1 (True)
OperandFields == TypedFields("bool", {0, 1}) \cup TypedFields("int", {0, 1})

BoolOperands ==
    {FieldValue(f) : f \in OperandFields} \cup {ScalarValue(x) : x \in {0, 1}}

BoolOps == {"logical_and", "logical_or", "logical_xor"}

\* self & other, self | other, self ^ other, and the reflected forms other & self
\* ... for a scalar other, which Python dispatches to self.__rand__(other) ...
BoolOp ==
    /\ op = "idle"
    /\ \E name \in BoolOps, self \in OperandFields, other \in BoolOperands,
          reflected \in BOOLEAN :
          /\ reflected => ~other.is_field
          /\ op' = "bool_op"
          /\ args' = [name |-> name, self |-> self, other |-> other, reflected |-> reflected]
          /\ ret' = bool_op(name, self, other)
    /\ UNCHANGED <<cache, obj>>

\* ~self
Invert ==
    /\ op = "idle"
    /\ \E self \in OperandFields :
          /\ op' = "invert"
          /\ args' = [self |-> self]
          /\ ret' = invert(self)
    /\ UNCHANGED <<cache, obj>>

ArithOps == {"add", "subtract", "multiply", "divide", "floor_divide", "mod", "power"}

Scalars == {2, 3}

\* f op s and s op f for a Field f of positive integers and a positive scalar s
ArithOp ==
    /\ op = "idle"
    /\ \E name \in ArithOps, f \in TypedFields("int", Values), x \in Scalars,
          reflected \in BOOLEAN :
          /\ op' = "arith_op"
          /\ args' = [name |-> name, f |-> f, s |-> x, reflected |-> reflected]
          /\ ret' = arith_op(name, f, x, reflected)
    /\ UNCHANGED <<cache, obj>>

\* the Fields over I x J whose element at (i, j) is 10 * i + j
GridFields ==
    {Field(<<NamedRange("I", UnitRange(0, 2)), NamedRange("J", UnitRange(0, n))>>,
           [shape |-> <<2, n>>, data |-> [t \in IndexSet(<<2, n>>) |-> 10 * t[1] + t[2]]])
        : n \in 2..3}

\* one Connectivity Field that lives across calls: obj is the object (its array is
\* mutated in place, so id(ndarray) and the domain in the cache keys never change)
\* and cache is its _cache
ObjectOps == {"construct", "obj_inverse_image", "obj_restrict", "obj_setitem"}

\* the queries and targets of the calls on the object
ObjectRanges == {UnitRange(a, b) : a, b \in 0..2} \ {UnitRange(0, 0)}

\* NumPyArrayConnectivityField.from_array: the object over V:[0,2) is built with
\* entries -1 and 0, its cache is empty
Construct ==
    /\ op = "idle"
    /\ \E c \in {x \in Connectivities1("I") :
                    /\ x.domain[1].unit_range = UnitRange(0, 2)
                    /\ \A t \in IndexSet(x.ndarray.shape) : x.ndarray.data[t] <= 0} :
          /\ op' = "construct"
          /\ args' = [connectivity |-> c]
          /\ ret' = Ok(c)
          /\ obj' = c
    /\ cache' = {}

\* obj.inverse_image(image_range)
ObjInverseImage ==
    /\ op \in ObjectOps
    /\ \E r \in ObjectRanges :
          LET res == inverse_image(obj, cache, ImageRange("", r))
          IN  /\ op' = "obj_inverse_image"
              /\ args' = [image_range |-> ImageRange("", r)]
              /\ ret' = res.ret
              /\ cache' = res.cache
    /\ UNCHANGED obj

\* obj.restrict(index)
ObjRestrict ==
    /\ op \in ObjectOps
    /\ \E r \in ObjectRanges :
          LET res == connectivity_restrict(obj, cache, <<NamedRange("V", r)>>)
          IN  /\ op' = "obj_restrict"
              /\ args' = [index |-> <<NamedRange("V", r)>>]
              /\ ret' = res.ret
              /\ cache' = res.cache
    /\ UNCHANGED obj

\* the cache after the array of the object changed in place: a cached restricted
\* Connectivity Field holds a view of the array (line 436) and shows the new
\* values, a cached inverse image is a Domain and stays as it is
CacheAfterAssign(cch, connectivity) ==
    {IF e[1] = "restrict"
     THEN <<e[1], e[2], connectivity_restrict(connectivity, {}, e[2]).ret.val>>
     ELSE e : e \in cch}

\* obj[index] = x for a scalar x: __setitem__ is inherited from NdArrayField
ObjSetItem ==
    /\ op \in ObjectOps
    /\ \E r \in ObjectRanges, x \in 0..1 :
          LET res == setitem(obj, <<NamedRange("V", r)>>, ScalarValue(x))
              mutated == NdArrayConnectivityField(obj.domain, res.self.ndarray,
                                                  obj.codomain, obj.skip_value)
          IN  /\ op' = "obj_setitem"
              /\ args' = [index |-> <<NamedRange("V", r)>>, value |-> x]
              /\ ret' = res.ret
              /\ obj' = mutated
              /\ cache' = CacheAfterAssign(cache, mutated)

\* _compute_mask_ranges(mask) on a 1-d boolean array of length 0 .. MaxStop + 1
ComputeMaskRanges ==
    /\ op = "idle"
    /\ \E mask \in ArraysUpTo(MaxStop + 1, BOOLEAN) :
          /\ op' = "_compute_mask_ranges"
          /\ args' = [mask |-> mask]
          /\ ret' = _compute_mask_ranges(mask)
    /\ UNCHANGED <<cache, obj>>

\* connectivity.restrict(index) on a 1-d Connectivity Field just built
ConnRestrict ==
    /\ op = "idle"
    /\ \E c \in Connectivities1("I"), r \in FiniteRanges :
          LET res == connectivity_restrict(c, {}, <<NamedRange("V", r)>>)
          IN  /\ op' = "connectivity_restrict"
              /\ args' = [connectivity |-> c, index |-> <<NamedRange("V", r)>>]
              /\ ret' = res.ret
              /\ cache' = res.cache
              /\ UNCHANGED obj

\* NdArrayField.from_array(data, domain=domain) for 1-d and 2 x 2 arrays and
\* domains over I and over I x J
FromArray ==
    /\ op = "idle"
    /\ \E data \in ArraysUpTo(MaxStop + 1, {1}) \cup Arrays22({1}),
          domain \in AbsoluteIndices \cup {f.domain : f \in GridFields} :
          /\ op' = "from_array"
          /\ args' = [data |-> data, domain |-> domain]
          /\ ret' = from_array(data, domain)
    /\ UNCHANGED <<cache, obj>>

\* the tuples of distinct dimensions out of I, J, K
NewDimensions ==
    {q \in UNION {[1..n -> {"I", "J", "K"}] : n \in 1..3} :
        \A j, k \in 1..Len(q) : q[j] = q[k] => j = k}

\* broadcast(field, new_dimensions)
Broadcast ==
    /\ op = "idle"
    /\ \E f \in ValueFields \cup GridFields, new_dimensions \in NewDimensions :
          /\ op' = "broadcast"
          /\ args' = [field |-> f, new_dimensions |-> new_dimensions]
          /\ ret' = _builtins_broadcast(f, new_dimensions)
    /\ UNCHANGED <<cache, obj>>

\* the Fields over V x K reductions are called on: one element per index, or a
\* length-1 placeholder axis, on either axis
ReducedFields ==
    UNION {{Field(<<NamedRange("V", UnitRange(0, 2)), NamedRange("K", UnitRange(0, 2))>>,
                  [shape |-> <<n, m>>, data |-> d]) : d \in [IndexSet(<<n, m>>) -> 1..3]}
              : n \in 1..2, m \in 1..2}

\* the neighbour tables of the offset provider: 2 vertices with 2 neighbours each
NeighborTables ==
    {[table |-> a, origin_axis |-> "V"] : a \in Arrays22({_DEFAULT_SKIP_VALUE, 0})}

Reductions == {"neighbor_sum", "max_over", "min_over"}

\* neighbor_sum / max_over / min_over (field, axis) under an offset provider
Reduction ==
    /\ op = "idle"
    /\ \E name \in Reductions, f \in ReducedFields, axis \in {"K", "V"},
          table \in NeighborTables :
          /\ op' = "reduction"
          /\ args' = [name |-> name, field |-> f, axis |-> axis, offset_definition |-> table]
          /\ ret' = reduction(name, f, axis, table)
    /\ UNCHANGED <<cache, obj>>

\* the caller drops the result
Return ==
    /\ op # "idle"
    /\ op' = "idle"
    /\ args' = NoArgs
    /\ ret' = NoArgs
    /\ cache' = {}
    /\ obj' = NoArgs

NextBuiltin == BuiltinOp \/ Broadcast \/ Return

SpecBuiltin == Init /\ [][NextBuiltin]_vars

NextConcat == ComputeMaskRanges \/ ConcatWhere \/ Return

SpecConcat == Init /\ [][NextConcat]_vars

NextField == FromArray \/ Restrict \/ SetItem \/ Return

SpecField == Init /\ [][NextField]_vars

NextOperators == BoolOp \/ Invert \/ ArithOp \/ Return

SpecOperators == Init /\ [][NextOperators]_vars

NextReduction == Reduction \/ Return

SpecReduction == Init /\ [][NextReduction]_vars

NextObject == Construct \/ ObjInverseImage \/ ObjRestrict \/ ObjSetItem \/ Return

SpecObject == Init /\ [][NextObject]_vars

NextRemap == ConnRestrict \/ InverseImage \/ Remap \/ RemapBack \/ Return

SpecRemap == Init /\ [][NextRemap]_vars

(***************************************************************************)
(* What a Field denotes: its value at an absolute index (a placeholder     *)
(* axis of length 1 stands for that element at every index of the range).  *)
(***************************************************************************)
ValueAt(f, idx) ==
    f.ndarray.data[[k \in 1..Len(f.domain) |->
        IF f.ndarray.shape[k] = UnitRange_len(f.domain[k].unit_range)
        THEN idx[k] - f.domain[k].unit_range.start
        ELSE 0]]

\* the absolute indices of a range that the model looks at (all of a finite range)
IndicesOf(r) == {i \in (0 - 2)..(MaxStop + 1) : InRange(i, r)}

\* the array holds one element per index of the (finite) domain
HoldsEveryIndex(f) ==
    \A k \in 1..Len(f.domain) :
        /\ is_finite(f.domain[k].unit_range)
        /\ f.ndarray.shape[k] = UnitRange_len(f.domain[k].unit_range)

(***************************************************************************)
(* Claims about the elementwise operators.                                 *)
(***************************************************************************)
\* C1: for any two Fields a and b over the same dimension, a op b is a new Field
\* whose domain is the intersection of the two domains and whose value at every
\* absolute index i of the intersection is op(a[i], b[i]).
C1_ElementwiseOnIntersection ==
    op = "builtin_op" =>
        LET ra == args.a.domain[1].unit_range
            rb == args.b.domain[1].unit_range
            ri == UnitRange(Max(ra.start, rb.start), Min(ra.stop, rb.stop))
        IN  /\ ret.ok
            /\ ret.val.domain = <<NamedRange("I", ri)>>
            /\ \A i \in IndicesOf(ri) :
                  ValueAt(ret.val, <<i>>) =
                      ScalarOp(args.name, ValueAt(args.a, <<i>>), ValueAt(args.b, <<i>>))

\* C1 restricted to operands whose arrays hold one element per index: the case of
\* the scenario A over I:[0,5), B over I:[2,7)
C1_HoldsForFullArrays ==
    (op = "builtin_op" /\ HoldsEveryIndex(args.a) /\ HoldsEveryIndex(args.b)) =>
        LET ra == args.a.domain[1].unit_range
            rb == args.b.domain[1].unit_range
            ri == UnitRange(Max(ra.start, rb.start), Min(ra.stop, rb.stop))
        IN  /\ ret.ok
            /\ ret.val.domain = <<NamedRange("I", ri)>>
            /\ HoldsEveryIndex(ret.val)
            /\ \A i \in IndicesOf(ri) :
                  ValueAt(ret.val, <<i>>) =
                      ScalarOp(args.name, ValueAt(args.a, <<i>>), ValueAt(args.b, <<i>>))

(***************************************************************************)
(* Claims about concat_where.                                              *)
(***************************************************************************)
RangeOf(f) == f.domain[1].unit_range

\* the mask is b at every index of its range
MaskIs(m, b) == \A i \in IndicesOf(RangeOf(m)) : ValueAt(m, <<i>>) = b

\* the Field res is the Field src cut to the range r
IsRestriction(res, src, r) ==
    /\ res.domain = <<NamedRange("I", r)>>
    /\ \A i \in IndicesOf(r) : ValueAt(res, <<i>>) = ValueAt(src, <<i>>)

\* every index of the result lies in the mask's range and in the range of the Field
\* the mask selects there, and the result holds that Field's value
SelectsByMask(res, m, t, f) ==
    \A i \in IndicesOf(RangeOf(res)) :
        /\ InRange(i, RangeOf(m))
        /\ InRange(i, RangeOf(IF ValueAt(m, <<i>>) THEN t ELSE f))
        /\ ValueAt(res, <<i>>) = ValueAt(IF ValueAt(m, <<i>>) THEN t ELSE f, <<i>>)

\* C2: whenever concat_where(mask, t, f) succeeds, the result is a Field over one
\* range of the mask dimension with result[i] = t[i] where mask[i] and f[i]
\* elsewhere; an all-true mask yields t cut to the intersection of the mask's range
\* and t's range, an all-false mask yields f cut likewise.
C2_ConcatWhereSelects ==
    (op = "concat_where" /\ ret.ok) =>
        /\ Len(ret.val.domain) = 1
        /\ ret.val.domain[1].dim = "I"
        /\ SelectsByMask(ret.val, args.mask, args.t, args.f)
        /\ MaskIs(args.mask, TRUE) =>
              IsRestriction(ret.val, args.t, UnitRange_and(RangeOf(args.mask), RangeOf(args.t)))
        /\ MaskIs(args.mask, FALSE) =>
              IsRestriction(ret.val, args.f, UnitRange_and(RangeOf(args.mask), RangeOf(args.f)))

\* the indices of the mask's range at which the Field the mask selects is defined
Covered(m, t, f) ==
    {i \in IndicesOf(RangeOf(m)) : InRange(i, RangeOf(IF ValueAt(m, <<i>>) THEN t ELSE f))}

\* some index between the first and the last covered index is not covered
Gap(m, t, f) ==
    \E i, j, k \in (0 - 2)..(MaxStop + 1) :
        /\ i < j /\ j < k
        /\ i \in Covered(m, t, f) /\ k \in Covered(m, t, f) /\ j \notin Covered(m, t, f)

\* the result is the empty Field over the zero-length range of dimension I
IsEmptyResult(r) ==
    /\ r.ok
    /\ r.val.domain = <<NamedRange("I", UnitRange(0, 0))>>
    /\ r.val.ndarray.shape = <<0>>

\* C2 restricted to masks that hold one element per index
C2_HoldsForFullMasks ==
    (op = "concat_where" /\ ret.ok /\ HoldsEveryIndex(args.mask)) =>
        /\ Len(ret.val.domain) = 1
        /\ ret.val.domain[1].dim = "I"
        /\ SelectsByMask(ret.val, args.mask, args.t, args.f)
        /\ MaskIs(args.mask, TRUE) =>
              IsRestriction(ret.val, args.t, UnitRange_and(RangeOf(args.mask), RangeOf(args.t)))
        /\ MaskIs(args.mask, FALSE) =>
              IsRestriction(ret.val, args.f, UnitRange_and(RangeOf(args.mask), RangeOf(args.f)))

\* C9: concat_where fails with the non-contiguous-domain error whenever some index
\* between the first and the last covered index is covered by neither selected
\* Field (a remaining run misses its Field, or two successive run domains do not
\* abut).
C9_GapFailsNonContiguous ==
    (op = "concat_where" /\ Gap(args.mask, args.t, args.f)) =>
        ret = Err("NonContiguousDomain")

\* C9 restricted to true and false Fields that hold one element per index or are
\* placeholders over the infinite range
C9_HoldsWithoutFinitePlaceholders ==
    (/\ op = "concat_where"
     /\ Gap(args.mask, args.t, args.f)
     /\ \A x \in {args.t, args.f} : HoldsEveryIndex(x) \/ RangeOf(x) = UnitRange_infinite) =>
        ret = Err("NonContiguousDomain")

\* the non-contiguous-domain error is raised only when there is such a gap
C9_NonContiguousOnlyWithGap ==
    (op = "concat_where" /\ ret = Err("NonContiguousDomain")) =>
        Gap(args.mask, args.t, args.f)

\* C10: when no run remains (the mask has length zero, or no index of the mask's
\* range is covered by the Field the mask selects there), concat_where returns
\* the empty Field over a zero-length range of the mask dimension and does not
\* fail.
C10_NoRunsGiveEmptyField ==
    (op = "concat_where" /\ Covered(args.mask, args.t, args.f) = {}) =>
        IsEmptyResult(ret)

\* C10 restricted to masks that hold one element per index of a non-empty range
C10_HoldsForNonEmptyFullMasks ==
    (/\ op = "concat_where"
     /\ Covered(args.mask, args.t, args.f) = {}
     /\ HoldsEveryIndex(args.mask)
     /\ ~UnitRange_is_empty(RangeOf(args.mask))) =>
        IsEmptyResult(ret)

\* a mask of length zero makes concat_where raise
C10_ZeroLengthMaskRaises ==
    (op = "concat_where" /\ args.mask.ndarray.shape = <<0>>) => ret = Err("IndexError")

(***************************************************************************)
(* Claims about inverse_image and remap.                                   *)
(***************************************************************************)
\* the array positions of connectivity c whose entry lies in range r
SelectedPositions(c, r) ==
    {t \in IndexSet(c.ndarray.shape) : InRange(c.ndarray.data[t], r)}

\* position t lies inside the bounding box of the set S of positions
InBox(S, t) ==
    \A k \in 1..Len(t) : \E u, v \in S : u[k] <= t[k] /\ t[k] <= v[k]

\* the entry at position t is the skip value of c
IsSkip(c, t) == ~c.skip_value.none /\ c.ndarray.data[t] = c.skip_value.v

\* the bounding box of S along axis k, as a range starting at the domain's start
BoxRange(c, S, k) ==
    UnitRange(SetMin({t[k] : t \in S}) + c.domain[k].unit_range.start,
              SetMax({t[k] : t \in S}) + 1 + c.domain[k].unit_range.start)

\* the call is inverse_image(r) with r a range of the codomain that selects
\* at least one entry
InverseImageCase ==
    /\ op = "inverse_image"
    /\ args.image_range.dim \in {"", args.connectivity.codomain}
    /\ SelectedPositions(args.connectivity, args.image_range.unit_range) # {}

\* C3: inverse_image(r) returns, for each dimension of the connectivity, the
\* bounding box [min, max + 1) of the positions whose entry lies in r, shifted by
\* the start of the connectivity's domain, provided every entry inside the box is
\* in r or is the skip value; otherwise it fails with the non-contiguous error.
C3_InverseImageBoundingBox ==
    InverseImageCase =>
        LET c == args.connectivity
            S == SelectedPositions(c, args.image_range.unit_range)
        IN  IF \A t \in IndexSet(c.ndarray.shape) : InBox(S, t) => (t \in S \/ IsSkip(c, t))
            THEN /\ ret.ok
                 /\ Len(ret.val) = Len(c.domain)
                 /\ \A k \in 1..Len(c.domain) :
                       ret.val[k] = NamedRange(c.domain[k].dim, BoxRange(c, S, k))
            ELSE ret = Err("ValueError: non-contiguous")

\* a neighbour table over V:[1,3) x K:[0,2) with a skip entry inside the box of the
\* selected entries: the inverse image is the whole table
C3_Witness ==
    /\ InverseImageCase
    /\ Len(args.connectivity.domain) = 2
    /\ \E t \in IndexSet(args.connectivity.ndarray.shape) :
          /\ IsSkip(args.connectivity, t)
          /\ t \notin SelectedPositions(args.connectivity, args.image_range.unit_range)
    /\ ret = Ok(<<NamedRange("V", UnitRange(1, 3)), NamedRange("K", UnitRange(0, 2))>>)

\* an entry inside the box that is neither selected nor skipped: the error
C3_NonContiguousCase ==
    InverseImageCase /\ ret = Err("ValueError: non-contiguous")

\* the call is f.remap(c) with a structure-modifying c whose codomain is the
\* dimension of f and whose inverse image of f's range exists
GatherCase ==
    /\ op = "remap"
    /\ "MODIFY_STRUCTURE" \in kind(args.connectivity)
    /\ dim_index(args.f.domain, args.connectivity.codomain) # 0
    /\ inverse_image(args.connectivity, {}, ImageRange("", RangeOf(args.f))).ret.ok

\* the inverse image of f's range under c
NewRanges == inverse_image(args.connectivity, {}, ImageRange("", RangeOf(args.f))).ret.val

\* the absolute indices of a domain
DomainIndices(domain) ==
    {p \in [1..Len(domain) -> (0 - 2)..(MaxStop + MaxConnLen)] :
        \A k \in 1..Len(domain) : InRange(p[k], domain[k].unit_range)}

\* the gather semantics of remap at the entries that are not the skip value
GathersNonSkip ==
    LET c == args.connectivity
        R == RangeOf(args.f)
    IN  /\ ret.val.domain = NewRanges
        /\ \A p \in DomainIndices(NewRanges) :
              (c.skip_value.none \/ ValueAt(c, p) # c.skip_value.v) =>
                  /\ 0 <= ValueAt(c, p) - R.start
                  /\ ValueAt(c, p) - R.start < UnitRange_len(R)
                  /\ ValueAt(ret.val, p) = ValueAt(args.f, <<ValueAt(c, p)>>)

\* C4: for a structure-modifying connectivity c and a Field f over c's codomain
\* with range R, f.remap(c) is a new Field over c.inverse_image(R), and at every
\* index p of it whose entry c[p] is not the skip value the result holds f at
\* absolute index c[p], with c[p] - R.start inside [0, len(R)).
C4_RemapGathers ==
    GatherCase => (ret.ok /\ GathersNonSkip)

\* C4 for the calls that return
C4_HoldsWhenRemapReturns ==
    (GatherCase /\ ret.ok) => GathersNonSkip

\* C4 where f and c hold one element per index and the box holds no skip entry
C4_HoldsWithoutSkipEntries ==
    (/\ GatherCase
     /\ HoldsEveryIndex(args.f)
     /\ HoldsEveryIndex(args.connectivity)
     /\ \A p \in DomainIndices(NewRanges) : ValueAt(args.connectivity, p) # 0 - 1) =>
        (ret.ok /\ GathersNonSkip)

\* the call is a gather whose connectivity has skip value -1 and a skip entry
\* inside the new domain, from a finite non-empty range
SkipCase ==
    /\ GatherCase
    /\ args.connectivity.skip_value = SomeInt(0 - 1)
    /\ is_finite(RangeOf(args.f))
    /\ ~UnitRange_is_empty(RangeOf(args.f))
    /\ \E p \in DomainIndices(NewRanges) : ValueAt(args.connectivity, p) = 0 - 1

\* every position whose entry is -1 holds the last element of the source array
SkipEntriesHoldLast ==
    /\ ret.ok
    /\ \A p \in DomainIndices(NewRanges) :
          ValueAt(args.connectivity, p) = 0 - 1 =>
              ValueAt(ret.val, p) = args.f.ndarray.data[<<args.f.ndarray.shape[1] - 1>>]

\* C5: in remap with skip value -1, every result position whose entry is -1
\* resolves by wraparound to the last element of the source array, without an
\* out-of-bounds access, for every finite non-empty source range whatever its
\* start.
C5_SkipWrapsToLast ==
    SkipCase => SkipEntriesHoldLast

\* C5 for source ranges that start at 0 and Fields holding one element per index
C5_HoldsForStartZero ==
    (/\ SkipCase
     /\ RangeOf(args.f).start = 0
     /\ HoldsEveryIndex(args.f)
     /\ HoldsEveryIndex(args.connectivity)) => SkipEntriesHoldLast

\* the Field res has the domain and the values of the Field f
SameField(res, f) ==
    /\ res.domain = f.domain
    /\ \A p \in DomainIndices(f.domain) : ValueAt(res, p) = ValueAt(f, p)

\* f ranges over [0, n) and the connectivity is a permutation of [0, n)
PermutationCase(f, c) ==
    /\ c.type = "ndarray"
    /\ c.codomain = f.domain[1].dim
    /\ Len(c.domain) = 1
    /\ Rank(c.ndarray) = 1
    /\ {c.ndarray.data[t] : t \in IndexSet(c.ndarray.shape)} = 0..(c.ndarray.shape[1] - 1)
    /\ c.domain[1].unit_range = UnitRange(0, c.ndarray.shape[1])
    /\ RangeOf(f) = UnitRange(0, c.ndarray.shape[1])

\* C6: for every Field f over [0, n) and every permutation connectivity c with
\* inverse cinv, f.remap(c).remap(cinv) has the domain and the values of f.
C6_PermutationRoundTrip ==
    /\ (op = "remap" /\ PermutationCase(args.f, args.connectivity)) => ret.ok
    /\ (op = "remap_back" /\ RangeOf(args.origin) = RangeOf(args.f)) =>
          (ret.ok /\ SameField(ret.val, args.origin))

\* C6 for n >= 1 and Fields that hold one element per index
C6_HoldsForNonEmptyFullFields ==
    /\ (/\ op = "remap"
        /\ PermutationCase(args.f, args.connectivity)
        /\ HoldsEveryIndex(args.f)
        /\ ~UnitRange_is_empty(RangeOf(args.f))) => ret.ok
    /\ (/\ op = "remap_back"
        /\ RangeOf(args.origin) = RangeOf(args.f)
        /\ HoldsEveryIndex(args.origin)) =>
          (ret.ok /\ SameField(ret.val, args.origin))

\* the call is f.remap(c) with a connectivity that does not modify the structure
CompactCase ==
    /\ op = "remap"
    /\ "MODIFY_STRUCTURE" \notin kind(args.connectivity)
    /\ dim_index(args.f.domain, args.connectivity.codomain) # 0

\* C7: when the connectivity's kind does not include MODIFY_STRUCTURE, remap
\* returns a Field whose array is the input's array unchanged, and only the range
\* of the codomain dimension is replaced by the inverse image (for a translation
\* by offset: the range moved back by offset).
C7_CompactRemapKeepsArray ==
    CompactCase =>
        /\ ret.ok
        /\ ret.val.ndarray = args.f.ndarray
        /\ ret.val.domain =
              <<NamedRange("I", UnitRange_add(RangeOf(args.f), 0 - args.connectivity.offset))>>

\* a translation by 1 of a Field holding three elements over I:[0,3)
C7_Witness ==
    /\ CompactCase
    /\ args.connectivity.offset = 1
    /\ args.f.ndarray.shape = <<3>>
    /\ RangeOf(args.f) = UnitRange(0, 3)
    /\ ret.ok
    /\ RangeOf(ret.val) = UnitRange(0 - 1, 2)

\* C8: remap fails with the dimension-mismatch error, returns no Field and leaves
\* its inputs as they were (nothing is cached), whenever the connectivity's
\* codomain is not a dimension of the Field's domain.
C8_RemapDimMismatch ==
    (op = "remap" /\ dim_index(args.f.domain, args.connectivity.codomain) = 0) =>
        /\ ret = Err("ValueError: incompatible index field")
        /\ cache = {}

\* a Connectivity Field into J applied to a Field over I:[0,2)
C8_Witness ==
    /\ op = "remap"
    /\ args.connectivity.type = "ndarray"
    /\ args.connectivity.codomain = "J"
    /\ RangeOf(args.f) = UnitRange(0, 2)
    /\ ~ret.ok

(***************************************************************************)
(* Claims about restrict and __setitem__.                                  *)
(***************************************************************************)
\* the call is f.restrict(D) with f over a finite range and D a sub-range of it
RestrictCase ==
    /\ op = "restrict"
    /\ is_finite(RangeOf(args.f))
    /\ UnitRange_le(args.index[1].unit_range, RangeOf(args.f))

\* C11: for every Field f with a finite domain and every absolute sub-domain D
\* contained in f.domain, f.restrict(D) is a Field with domain D whose value at
\* every absolute index of D is f's value there; in particular f.restrict(f.domain)
\* has the domain and the values of f.
C11_RestrictIsSubField ==
    RestrictCase =>
        (ret.ok /\ IsRestriction(ret.val, args.f, args.index[1].unit_range))

\* C11 for Fields that hold one element per index
C11_HoldsForFullArrays ==
    (RestrictCase /\ HoldsEveryIndex(args.f)) =>
        (ret.ok /\ IsRestriction(ret.val, args.f, args.index[1].unit_range))

\* restricting any Field to its own domain gives the Field back
C11_RestrictToOwnDomain ==
    (op = "restrict" /\ args.index = args.f.domain) =>
        (ret.ok /\ IsRestriction(ret.val, args.f, RangeOf(args.f)))

\* the call is f[index] = value with index a sub-range of f's range
SetItemCase ==
    /\ op = "setitem"
    /\ UnitRange_le(args.index[1].unit_range, RangeOf(args.f))

\* C12: f[index] = value with value a Field whose domain is not exactly the target
\* domain computed from index fails with the domain-mismatch error, and f's array
\* and domain are unchanged by the failed assignment.
C12_SetItemDomainMismatch ==
    (SetItemCase /\ args.value.is_field /\ args.value.field.domain # args.index) =>
        /\ ret = Err("ValueError: incompatible domain")
        /\ obj = args.f

\* a Field over I:[0,2) assigned to the part I:[1,3) of a Field over I:[0,3)
C12_Witness ==
    /\ SetItemCase
    /\ args.f.ndarray.shape = <<3>>
    /\ RangeOf(args.f) = UnitRange(0, 3)
    /\ args.index[1].unit_range = UnitRange(1, 3)
    /\ args.value.is_field
    /\ RangeOf(args.value.field) = UnitRange(0, 2)
    /\ args.value.field.ndarray.shape = <<2>>
    /\ ~ret.ok
    /\ obj = args.f

\* what the assigned value holds at absolute index i
AssignedAt(value, i) ==
    IF value.is_field THEN ValueAt(value.field, <<i>>) ELSE value.scalar

\* the Field after the assignment holds the value inside the target range and
\* f's old value outside, over f's old domain
AssignsExactlyTarget ==
    /\ obj.domain = args.f.domain
    /\ \A i \in IndicesOf(RangeOf(args.f)) :
          ValueAt(obj, <<i>>) =
              IF InRange(i, args.index[1].unit_range)
              THEN AssignedAt(args.value, i)
              ELSE ValueAt(args.f, <<i>>)

\* C13: a successful f[index] = value changes exactly the elements of f inside the
\* target domain, setting each to the corresponding element of value (or to the
\* scalar); every element of f outside the target domain and f's domain itself are
\* unchanged.
C13_SetItemFrame ==
    (SetItemCase /\ ret.ok) => AssignsExactlyTarget

\* C13 for Fields f that hold one element per index
C13_HoldsForFullArrays ==
    (SetItemCase /\ ret.ok /\ HoldsEveryIndex(args.f)) => AssignsExactlyTarget

(***************************************************************************)
(* The operators of NdArrayField.                                          *)
(***************************************************************************)
BoolCase == op \in {"bool_op", "invert"}

\* the Fields among the operands of the boolean-only operator called
OperandFieldsOf(a) ==
    {a.self} \cup (IF "other" \in DOMAIN a /\ a.other.is_field THEN {a.other.field} ELSE {})

\* the value of an operand at absolute index i
OperandAt(o, i) == IF o.is_field THEN ValueAt(o.field, <<i>>) ELSE o.scalar

\* the domain the result of a boolean-only operator has
BoolDomain(a) ==
    IF "other" \in DOMAIN a /\ a.other.is_field
    THEN domain_intersection(a.self.domain, a.other.field.domain)
    ELSE a.self.domain

\* ret is the elementwise logical result of the call
IsLogicalResult ==
    /\ ret.ok
    /\ ret.val.domain = BoolDomain(args)
    /\ is_finite(RangeOf(ret.val)) =>
          \A i \in IndicesOf(RangeOf(ret.val)) :
             ValueAt(ret.val, <<i>>) =
                IF op = "invert" THEN ~Truthy(ValueAt(args.self, <<i>>))
                ELSE ScalarOp(args.name, ValueAt(args.self, <<i>>), OperandAt(args.other, i))

\* C14: the boolean-only operators (and, or, xor, invert, and the reflected forms)
\* fail with an unsupported-operation error whenever an operand Field's dtype is
\* not boolean, and return the elementwise logical result when it is boolean
C14_BoolOperatorsNeedBool ==
    BoolCase =>
       IF \E f \in OperandFieldsOf(args) : dtype(f) # "bool"
       THEN ret = Err("NotImplementedError")
       ELSE IsLogicalResult

\* what the code does: only the dtype of self decides, and the logical result is
\* right when the arrays hold every index
C14_HoldsForSelfDtype ==
    BoolCase =>
       IF dtype(args.self) # "bool"
       THEN ret = Err("NotImplementedError")
       ELSE (\A f \in OperandFieldsOf(args) : HoldsEveryIndex(f)) => IsLogicalResult

\* a boolean Field combined with an integer Field returns a Field
C14_MixedOperandsReturn ==
    /\ op = "bool_op"
    /\ args.other.is_field
    /\ dtype(args.self) = "bool"
    /\ dtype(args.other.field) = "int"
    /\ HoldsEveryIndex(args.self) /\ HoldsEveryIndex(args.other.field)
    /\ UnitRange_len(RangeOf(args.self)) > 0
    /\ ret.ok

ReflectedCase ==
    /\ op = "arith_op"
    /\ args.reflected
    /\ args.name \in {"subtract", "divide", "floor_divide", "mod", "power"}

\* ret has f's domain and op(s, f[i]) at every index i
IsReflectedResult ==
    /\ ret.ok
    /\ ret.val.domain = args.f.domain
    /\ \A i \in IndicesOf(RangeOf(args.f)) :
          ValueAt(ret.val, <<i>>) = ScalarOp(args.name, args.s, ValueAt(args.f, <<i>>))

\* C15: for every non-commutative operator (sub, div, floordiv, mod, pow) with a
\* scalar s on the left and a Field f on the right, the result has f's domain and
\* the value op(s, f[i]) at every index i
C15_ReflectedOperandOrder == ReflectedCase => IsReflectedResult

\* sub, div, floordiv and mod honour the operand order
C15_HoldsForOperatorsWithReflectedForm ==
    (ReflectedCase /\ args.name # "power") => IsReflectedResult

\* s ** f raises TypeError: the class body has no __rpow__
C15_PowerHasNoReflectedForm ==
    (ReflectedCase /\ args.name = "power") => ret = Err("TypeError: unsupported operand")

\* the ranges of the two operand Fields have no index in common
DisjointCase ==
    /\ op = "builtin_op"
    /\ UnitRange_is_empty(UnitRange_and(RangeOf(args.a), RangeOf(args.b)))

\* ret is a Field over the empty domain with a zero-length array
IsZeroLengthField ==
    /\ ret.ok
    /\ UnitRange_is_empty(RangeOf(ret.val))
    /\ ret.val.ndarray.shape = <<0>>

DtypeMin == 0 - 100
DtypeMax == 0 - DtypeMin

\* the identity element of a reduction
Identity(name) ==
    CASE name = "neighbor_sum" -> 0
      [] name = "max_over" -> DtypeMin
      [] name = "min_over" -> DtypeMax

ReductionCase == op = "reduction" /\ args.axis = "K"

Skipped(v, k) == args.offset_definition.table.data[<<v, k>>] = _DEFAULT_SKIP_VALUE

\* the entry (v, k) of the Field after the skipped entries are replaced
MaskedAt(v, k) ==
    IF Skipped(v, k) THEN Identity(args.name) ELSE ValueAt(args.field, <<v, k>>)

\* the reduction of the two masked entries of row v
ReducedRow(v) ==
    CASE args.name = "neighbor_sum" -> MaskedAt(v, 0) + MaskedAt(v, 1)
      [] args.name = "max_over" -> Max(MaskedAt(v, 0), MaskedAt(v, 1))
      [] args.name = "min_over" -> Min(MaskedAt(v, 0), MaskedAt(v, 1))

IsMaskedReduction ==
    /\ ret.ok
    /\ ret.val.domain = <<args.field.domain[1]>>
    /\ \A v \in 0..1 : ValueAt(ret.val, <<v>>) = ReducedRow(v)

\* C17: neighbor_sum, max_over and min_over replace every entry whose neighbour
\* table entry is the skip value by the identity element (0, the dtype's minimum,
\* the dtype's maximum) before reducing along the local axis, so a row whose
\* neighbours are all skipped reduces to the identity; the result domain is the
\* input domain without the reduced dimension
C17_SkippedEntriesAreIdentity == ReductionCase => IsMaskedReduction

\* it holds for neighbor_sum, and for max_over and min_over when no row has all
\* its neighbours skipped
C17_HoldsWithoutFullySkippedRows ==
    (/\ ReductionCase
     /\ args.name = "neighbor_sum" \/ \A v \in 0..1 : ~(Skipped(v, 0) /\ Skipped(v, 1)))
       => IsMaskedReduction

\* max_over and min_over fill a fully skipped row with the smallest / largest
\* element of the Field's own array
C17_FullySkippedRowHoldsArrayExtreme ==
    (/\ ReductionCase
     /\ args.name # "neighbor_sum")
       => /\ ret.ok
          /\ \A v \in 0..1 :
                (Skipped(v, 0) /\ Skipped(v, 1)) =>
                   ValueAt(ret.val, <<v>>) =
                      IF args.name = "max_over" THEN ArrayMin(args.field.ndarray)
                      ELSE ArrayMax(args.field.ndarray)

(***************************************************************************)
(* Claims about broadcast.                                                 *)
(***************************************************************************)
\* broadcast is called with new dimensions that include those of the Field
BroadcastCase ==
    /\ op = "broadcast"
    /\ \A k \in 1..Len(args.field.domain) :
          \E j \in 1..Len(args.new_dimensions) :
             args.new_dimensions[j] = args.field.domain[k].dim

\* the absolute index tuples of a Field the model looks at
FieldIndices(f) ==
    {idx \in [1..Len(f.domain) -> (0 - 2)..(MaxStop + 1)] :
        \A k \in 1..Len(f.domain) : InRange(idx[k], f.domain[k].unit_range)}

\* the index tuple of the broadcast Field that stands for idx of the Field f
BroadcastIndexOf(f, new_dimensions, idx) ==
    [j \in 1..Len(new_dimensions) |->
        IF dim_index(f.domain, new_dimensions[j]) # 0
        THEN idx[dim_index(f.domain, new_dimensions[j])]
        ELSE 0]

IsBroadcastOf(res, f, new_dimensions) ==
    /\ Domain_dims(res.domain) = new_dimensions
    /\ Rank(res.ndarray) = Len(new_dimensions)
    /\ \A j \in 1..Len(new_dimensions) :
          IF dim_index(f.domain, new_dimensions[j]) # 0
          THEN /\ res.domain[j].unit_range =
                    f.domain[dim_index(f.domain, new_dimensions[j])].unit_range
               /\ res.ndarray.shape[j] =
                    f.ndarray.shape[dim_index(f.domain, new_dimensions[j])]
          ELSE /\ res.domain[j].unit_range = UnitRange_infinite
               /\ res.ndarray.shape[j] = 1
    /\ \A idx \in FieldIndices(f) :
          ValueAt(res, BroadcastIndexOf(f, new_dimensions, idx)) = ValueAt(f, idx)

\* C18: broadcast(field, new_dimensions) returns a Field whose domain lists
\* exactly new_dimensions in the requested order; a dimension of the field keeps
\* its range and data, an absent one gets the infinite range and an axis of
\* length 1; axis k of the array belongs to dimension k and no value changes
C18_BroadcastListsNewDimensions ==
    BroadcastCase => (ret.ok /\ IsBroadcastOf(ret.val, args.field, args.new_dimensions))

\* the dimensions of the Field appear in new_dimensions in the Field's order
KeepsOrder ==
    \A j, k \in 1..Len(args.field.domain) :
       j < k => (CHOOSE n \in 1..Len(args.new_dimensions) :
                    args.new_dimensions[n] = args.field.domain[j].dim)
                < (CHOOSE n \in 1..Len(args.new_dimensions) :
                    args.new_dimensions[n] = args.field.domain[k].dim)

\* it holds when new_dimensions keeps the dimensions of the Field in their order
C18_HoldsWhenOrderIsKept ==
    (BroadcastCase /\ KeepsOrder) =>
       (ret.ok /\ IsBroadcastOf(ret.val, args.field, args.new_dimensions))

(***************************************************************************)
(* The shape invariant of Fields.                                          *)
(***************************************************************************)
\* the rank of the array is the number of dimensions and every axis has the
\* length of its range or length 1
FitsDomain(ndarray, domain) ==
    /\ Rank(ndarray) = Len(domain)
    /\ \A k \in 1..Len(domain) :
          ndarray.shape[k] = UnitRange_len(domain[k].unit_range) \/ ndarray.shape[k] = 1

\* the call returned a Field or a Connectivity Field
ReturnsField ==
    /\ op \in {"from_array", "builtin_op", "bool_op", "invert", "arith_op", "restrict",
               "connectivity_restrict", "remap", "remap_back", "broadcast",
               "concat_where", "reduction"}
    /\ ret.ok

\* C19: every Field or Connectivity Field returned by from_array, an elementwise
\* operator, restrict, remap, broadcast, concat_where or a reduction has an array
\* whose rank is the number of domain dimensions and whose axis lengths are the
\* lengths of the domain ranges or 1; from_array rejects every other pair
C19_ReturnedFieldsFitDomain ==
    /\ ReturnsField => FitsDomain(ret.val.ndarray, ret.val.domain)
    /\ (op = "from_array" /\ ~FitsDomain(args.data, args.domain)) => ~ret.ok

\* it holds for every call but the restrict of a Connectivity Field
C19_HoldsForFields ==
    /\ (ReturnsField /\ op # "connectivity_restrict")
          => FitsDomain(ret.val.ndarray, ret.val.domain)
    /\ (op = "from_array" /\ ~FitsDomain(args.data, args.domain)) => ~ret.ok

\* the restrict of a Connectivity Field that holds one entry per index fits too
C19_HoldsForFullConnectivities ==
    (ReturnsField /\ op = "connectivity_restrict" /\ HoldsEveryIndex(args.connectivity))
       => FitsDomain(ret.val.ndarray, ret.val.domain)

(***************************************************************************)
(* Claims about _compute_mask_ranges.                                      *)
(***************************************************************************)
MaskRangesCase == op = "_compute_mask_ranges" /\ args.mask.shape[1] > 0

\* the runs tile [0, n), none is empty, every element of a run has the value of
\* the run, and neighbouring runs have different values
IsRunPartition(runs, mask) ==
    /\ Len(runs) > 0
    /\ runs[1].r.start = 0
    /\ runs[Len(runs)].r.stop = mask.shape[1]
    /\ \A k \in 1..Len(runs) :
          /\ runs[k].r.start < runs[k].r.stop
          /\ \A i \in runs[k].r.start..(runs[k].r.stop - 1) : mask.data[<<i>>] = runs[k].v
    /\ \A k \in 1..(Len(runs) - 1) :
          /\ runs[k].r.stop = runs[k + 1].r.start
          /\ runs[k].v # runs[k + 1].v

\* C20: for every non-empty 1-dimensional boolean mask of length n,
\* _compute_mask_ranges returns an ordered list of non-empty runs that tile [0, n)
\* exactly, every mask element in a run equals the value of the run, and adjacent
\* runs have different values
C20_MaskRunsTileTheMask ==
    MaskRangesCase => (ret.ok /\ IsRunPartition(ret.val, args.mask))

\* a mask with three runs
C20_Witness ==
    /\ MaskRangesCase
    /\ args.mask.shape[1] = 4
    /\ ret.ok
    /\ Len(ret.val) = 3
    /\ ret.val[2].r = UnitRange(1, 3)

(***************************************************************************)
(* Claims about the memo cache of one Connectivity Field.                  *)
(***************************************************************************)
\* what inverse_image gives on the current array of the object with no cache
FreshInverseImage == inverse_image(obj, {}, args.image_range).ret

\* C21: in every state reachable by inverse_image, restrict and __setitem__ calls
\* on one Connectivity Field, inverse_image(r) returns what a fresh, uncached
\* hypercube computation over the current array gives: the cache never serves a
\* result that is stale with respect to an in-place change of the array
C21_CacheNeverStale == op = "obj_inverse_image" => ret = FreshInverseImage

\* without an assignment between the two calls the cached result is the fresh
\* one: every cached inverse image that differs from the fresh one is older than
\* an assignment (the step itself keeps fresh answers fresh)
C21_StaleOnlyAfterSetItem ==
    [][(op' = "obj_inverse_image" /\ op # "obj_setitem"
          /\ (op = "obj_inverse_image" => ret = FreshInverseImage)
          /\ \A e \in cache : e[1] = "inverse_image" =>
                 Ok(e[3]) = inverse_image(obj, {}, e[2]).ret)
       => (ret' = inverse_image(obj', {}, args'.image_range).ret)]_vars

\* a call served from the cache after the array changed
C21_StaleHit ==
    /\ op = "obj_inverse_image"
    /\ ret.ok
    /\ FreshInverseImage.ok
    /\ ret # FreshInverseImage

(***************************************************************************)
(* Claims about an image range no entry lies in.                           *)
(***************************************************************************)
\* inverse_image is called on an array-backed connectivity with a finite range
\* that holds none of its entries
NoEntryInverseImage ==
    /\ op = "inverse_image"
    /\ is_finite(args.image_range.unit_range)
    /\ SelectedPositions(args.connectivity, args.image_range.unit_range) = {}

\* remap is called with an array-backed connectivity none of whose entries lies
\* in the finite range of the Field
NoEntryRemap ==
    /\ op = "remap"
    /\ args.connectivity.type = "ndarray"
    /\ is_finite(RangeOf(args.f))
    /\ SelectedPositions(args.connectivity, RangeOf(args.f)) = {}

\* C22: when no entry of the connectivity's index array lies within the finite
\* image_range, inverse_image returns no domain (not an empty one either): the
\* call fails, nothing is added to the memo cache, and a remap that depends on
\* it fails as well
C22_EmptySelectionFails ==
    (NoEntryInverseImage \/ NoEntryRemap) => (~ret.ok /\ cache = {})

\* both cases with a connectivity of two entries into the codomain of the Field:
\* the failure is the one of the minimum of an empty selection
C22_Witness ==
    /\ NoEntryInverseImage \/ NoEntryRemap
    /\ args.connectivity.codomain = "I"
    /\ args.connectivity.ndarray.shape = <<2>>
    /\ ret = Err("ValueError: zero-size array")
    /\ cache = {}

====
